---- MODULE Spec2Model ----
(***************************************************************************)
(* Model of the notifier library: the Notifier object (configure, create,  *)
(* update, remove, _putNotification, _removeNotification, _send), the      *)
(* schedule builder cronBuilder and the email validation/sanitization of   *)
(* lib/utils.js.                                                           *)
(*                                                                         *)
(* JavaScript values are modelled as follows.  A cron token or any other   *)
(* opaque string is a TLA+ string, and the absent property is the value    *)
(* undefined.  An optional number is a sequence: << >> when absent, <<n>>  *)
(* when present.  An instant (milliseconds since the epoch) is the pair    *)
(* [day, ms] of the epoch day and the millisecond of that day, so that no  *)
(* number leaves the 32-bit range.  A string whose characters matter (an   *)
(* email body) is a sequence of one-character strings.                     *)
(***************************************************************************)
EXTENDS Integers, Sequences, FiniteSets, TLC

undefined == "undefined"

\* JavaScript truthiness of an opaque string property
Truthy(v) == v # undefined /\ v # ""

\* a || b on opaque string properties
OrElse(a, b) == IF Truthy(a) THEN a ELSE b

-----------------------------------------------------------------------------
(* Bounds *)

\* largest delay a configure call supplies
MaxDelay == 300

\* number of characters of the longest email body drawn
MaxBody == 2

-----------------------------------------------------------------------------
(* Date: the UTC calendar of an instant *)

MsPerDay == 86400000

\* instant + ms milliseconds (ms >= 0)
AddMs(t, ms) ==
  LET total == t.ms + ms
  IN  [day |-> t.day + (total \div MsPerDay), ms |-> total % MsPerDay]

\* t1 <= t2 on instants
InstantLeq(t1, t2) == t1.day < t2.day \/ (t1.day = t2.day /\ t1.ms <= t2.ms)

\* year, month (0-based, as getUTCMonth) and day of month of an epoch day
CivilFromDays(d) ==
  LET z   == d + 719468
      era == z \div 146097
      doe == z - era * 146097
      yoe == (doe - (doe \div 1460) + (doe \div 36524) - (doe \div 146096)) \div 365
      doy == doe - (365 * yoe + (yoe \div 4) - (yoe \div 100))
      mp  == (5 * doy + 2) \div 153
      dom == doy - ((153 * mp + 2) \div 5) + 1
      m   == IF mp < 10 THEN mp + 3 ELSE mp - 9
      y   == yoe + era * 400 + (IF m <= 2 THEN 1 ELSE 0)
  IN  [year |-> y, month |-> m - 1, date |-> dom]

getUTCMinutes(t)  == (t.ms \div 60000) % 60
getUTCHours(t)    == t.ms \div 3600000
getUTCDate(t)     == CivilFromDays(t.day).date
getUTCMonth(t)    == CivilFromDays(t.day).month
getUTCFullYear(t) == CivilFromDays(t.day).year

\* new Date(end): << >> for an Invalid Date, <<instant>> otherwise
DateParse(s) ==
  CASE s = "2030-01-01" -> << [day |-> 21915, ms |-> 0] >>
    [] s = "2019-12-31" -> << [day |-> 18261, ms |-> 0] >>
    [] OTHER            -> << >>

-----------------------------------------------------------------------------
(* cronBuilder *)

\* the template literal that serializes the six fields
CronExpression(cron) ==
  "cron(" \o cron.minute \o " " \o cron.hour \o " " \o cron.dayOfMonth \o " "
          \o cron.month \o " " \o cron.dayOfWeek \o " " \o cron.year \o ")"

NoCron ==
  [minute |-> undefined, hour |-> undefined, dayOfMonth |-> undefined,
   month |-> undefined, dayOfWeek |-> undefined, year |-> undefined]

\* OnceCron that takes getUTCMonth() as the month number
OnceCronZeroBasedMonth(now, delay) ==
  LET date == AddMs(now, delay * 1000)
  IN  [minute     |-> ToString(getUTCMinutes(date)),
       hour       |-> ToString(getUTCHours(date)),
       dayOfMonth |-> ToString(getUTCDate(date)),
       month      |-> ToString(getUTCMonth(date)),
       dayOfWeek  |-> "?",
       year       |-> ToString(getUTCFullYear(date))]

\* the fields of the "only once" schedule, delay seconds after now
OnceCron(now, delay) ==
  LET date == AddMs(now, delay * 1000)
  IN  [minute     |-> ToString(getUTCMinutes(date)),
       hour       |-> ToString(getUTCHours(date)),
       dayOfMonth |-> ToString(getUTCDate(date)),
       month      |-> ToString(getUTCMonth(date) + 1),
       dayOfWeek  |-> "?",
       year       |-> ToString(getUTCFullYear(date))]

\* ExplicitCron whose default hour is 8 (the local hour of the comment)
ExplicitCronHour8(schedule) ==
  LET weekly     == Truthy(schedule.weekDay) \/ schedule.workingDays
      dayOfMonth == OrElse(schedule.day, IF weekly THEN "?" ELSE "*")
  IN  [minute     |-> OrElse(schedule.minute, "0"),
       hour       |-> OrElse(schedule.hour, "8"),
       dayOfMonth |-> dayOfMonth,
       month      |-> OrElse(schedule.month, "*"),
       dayOfWeek  |-> OrElse(schedule.weekDay,
                             IF schedule.workingDays THEN "MON-FRI"
                             ELSE IF dayOfMonth # "?" THEN "?" ELSE "*"),
       year       |-> OrElse(schedule.year, "*")]

\* ExplicitCron whose dayOfWeek is * whenever day is not given
ExplicitCronStarWithoutDay(schedule) ==
  LET weekly     == Truthy(schedule.weekDay) \/ schedule.workingDays
      dayOfMonth == OrElse(schedule.day, IF weekly THEN "?" ELSE "*")
  IN  [minute     |-> OrElse(schedule.minute, "0"),
       hour       |-> OrElse(schedule.hour, "11"),
       dayOfMonth |-> dayOfMonth,
       month      |-> OrElse(schedule.month, "*"),
       dayOfWeek  |-> OrElse(schedule.weekDay,
                             IF schedule.workingDays THEN "MON-FRI"
                             ELSE IF Truthy(schedule.day) THEN "?" ELSE "*"),
       year       |-> OrElse(schedule.year, "*")]

\* the fields of a schedule with at least one temporal property
ExplicitCron(schedule) ==
  LET weekly     == Truthy(schedule.weekDay) \/ schedule.workingDays
      dayOfMonth == OrElse(schedule.day, IF weekly THEN "?" ELSE "*")
  IN  [minute     |-> OrElse(schedule.minute, "0"),
       hour       |-> OrElse(schedule.hour, "11"),
       dayOfMonth |-> dayOfMonth,
       month      |-> OrElse(schedule.month, "*"),
       dayOfWeek  |-> OrElse(schedule.weekDay,
                             IF schedule.workingDays THEN "MON-FRI"
                             ELSE IF dayOfMonth # "?" THEN "?" ELSE "*"),
       year       |-> OrElse(schedule.year, "*")]

\* DayConflict that forgets workingDays
DayConflictWeekDayOnly(schedule) ==
  Truthy(schedule.day) /\ Truthy(schedule.weekDay)

\* the day / weekDay conflict test
DayConflict(schedule) ==
  Truthy(schedule.day) /\ (Truthy(schedule.weekDay) \/ schedule.workingDays)

\* NoTemporalField that forgets year
NoTemporalFieldButYear(schedule) ==
  /\ ~Truthy(schedule.minute) /\ ~Truthy(schedule.hour) /\ ~Truthy(schedule.day)
  /\ ~Truthy(schedule.month) /\ ~Truthy(schedule.weekDay)

\* the test for the "only once" case
NoTemporalField(schedule) ==
  /\ ~Truthy(schedule.minute) /\ ~Truthy(schedule.hour) /\ ~Truthy(schedule.day)
  /\ ~Truthy(schedule.month) /\ ~Truthy(schedule.weekDay) /\ ~Truthy(schedule.year)

\* cronBuilder(schedule, delay) called at instant now.  status is "ok" when
\* it returns and the kind of the error when it throws; cron is the local
\* variable cron; end is << >> or the epoch instant of the parsed end.
cronBuilder(schedule, delay, now) ==
  IF DayConflict(schedule)
  THEN [status |-> "conflict", expression |-> undefined, once |-> schedule.once,
        end |-> << >>, cron |-> NoCron]
  ELSE IF Truthy(schedule.end) /\ DateParse(schedule.end) = << >>
  THEN [status |-> "endFormat", expression |-> undefined, once |-> schedule.once,
        end |-> << >>, cron |-> NoCron]
  ELSE LET end  == IF Truthy(schedule.end) THEN DateParse(schedule.end) ELSE << >>
           once == NoTemporalField(schedule)
           cron == IF once THEN OnceCron(now, delay) ELSE ExplicitCron(schedule)
       IN  [status |-> "ok", expression |-> CronExpression(cron),
            once |-> IF once THEN "true" ELSE schedule.once,
            end |-> end, cron |-> cron]

-----------------------------------------------------------------------------
(* Inputs of the schedule builder *)

MinuteTokens  == {undefined, "0/10"}
HourTokens    == {undefined, "22"}
DayTokens     == {undefined, "16", "*", "?"}
MonthTokens   == {undefined, "DEC"}
WeekDayTokens == {undefined, "MON,THU", "*", "?"}
YearTokens    == {undefined, "2030"}
EndValues     == {undefined, "2030-01-01", "tomorrow"}
OnceValues    == {undefined, "true", "false"}

Schedules ==
  [minute : MinuteTokens, hour : HourTokens, day : DayTokens, month : MonthTokens,
   weekDay : WeekDayTokens, year : YearTokens, workingDays : BOOLEAN,
   end : EndValues, once : OnceValues]

\* the empty schedule {} that _putNotification supplies
EmptySchedule ==
  [minute |-> undefined, hour |-> undefined, day |-> undefined, month |-> undefined,
   weekDay |-> undefined, year |-> undefined, workingDays |-> FALSE,
   end |-> undefined, once |-> undefined]

\* instants at which a call is made: the end of a year, the end of February
\* in a leap year and in a common year, leap day, an ordinary morning
Instants ==
  { [day |-> 18261, ms |-> 86310000],    \* 2019-12-31T23:58:30.000Z
    [day |-> 18320, ms |-> 86399999],    \* 2020-02-28T23:59:59.999Z
    [day |-> 18321, ms |-> 43200000],    \* 2020-02-29T12:00:00.000Z
    [day |-> 18686, ms |-> 86280000],    \* 2021-02-28T23:58:00.000Z
    [day |-> 18062, ms |-> 37800000] }   \* 2019-06-15T10:30:00.000Z

\* the delays the Notifier can hold: 120 after construction, and any
\* configured value above 120
Delays == {120, 121, 3600, 86400} \cup {MaxDelay}

-----------------------------------------------------------------------------
(* JavaScript values of an email payload *)

Undef  == [type |-> "undefined", val |-> << >>]
Str(s) == [type |-> "string", val |-> s]
Num(n) == [type |-> "number", val |-> <<n>>]
Arr(a) == [type |-> "array", val |-> a]
\* an object is the sequence of its <<key, value>> pairs, in key order
Obj(p) == [type |-> "object", val |-> p]

\* the value is truthy
IsSet(v) ==
  CASE v.type = "undefined" -> FALSE
    [] v.type = "string"    -> v.val # << >>
    [] v.type = "number"    -> v.val # <<0>>
    [] OTHER                -> TRUE

isObject(value) == value.type \in {"object", "array"}

isString(value) == value.type = "string"

isArrayOfStrings(value) ==
  /\ value.type = "array"
  /\ \A i \in 1..Len(value.val) : isString(value.val[i])

\* html-entities encode(), default options: the five special characters are
\* replaced by their named references, every other character is kept
EncodeChar(c) ==
  CASE c = "&"  -> <<"&", "a", "m", "p", ";">>
    [] c = "<"  -> <<"&", "l", "t", ";">>
    [] c = ">"  -> <<"&", "g", "t", ";">>
    [] c = "\"" -> <<"&", "q", "u", "o", "t", ";">>
    [] c = "'"  -> <<"&", "a", "p", "o", "s", ";">>
    [] OTHER    -> <<c>>

RECURSIVE encode(_)
encode(s) == IF s = << >> THEN << >> ELSE EncodeChar(Head(s)) \o encode(Tail(s))

encodeString(value) == IF isString(value) THEN Str(encode(value.val)) ELSE value

\* the required-field and type checks shared by both email validators:
\* "ok", or the kind of the first error thrown
EmailFieldsError(email) ==
  CASE ~IsSet(email.to) /\ ~IsSet(email.cc) /\ ~IsSet(email.bcc) -> "destination"
    [] ~IsSet(email.from)                                       -> "from"
    [] ~IsSet(email.subject)                                    -> "subject"
    [] ~IsSet(email.body)                                       -> "body"
    [] IsSet(email.template) /\ ~isObject(email.body)           -> "bodyType"
    [] ~IsSet(email.template) /\ ~isString(email.body)          -> "bodyType"
    [] IsSet(email.from) /\ ~isString(email.from)               -> "stringType"
    [] IsSet(email.subject) /\ ~isString(email.subject)         -> "stringType"
    [] IsSet(email.template) /\ ~isString(email.template)       -> "stringType"
    [] OTHER                                                    -> "ok"

\* a recipient field is neither a string nor an array of strings
BadRecipient(v) == IsSet(v) /\ ~isString(v) /\ ~isArrayOfStrings(v)

\* CoerceRecipient that wraps an array as well
CoerceRecipientAlways(v) == IF IsSet(v) THEN Arr(<<v>>) ELSE v

\* a recipient field after the string-to-array coercion
CoerceRecipient(v) == IF IsSet(v) /\ isString(v) THEN Arr(<<v>>) ELSE v

\* the body after escaping: every value of a map body, or the string body
SanitizeBody(body) ==
  IF body.type = "object"
  THEN Obj([i \in 1..Len(body.val) |-> <<body.val[i][1], encodeString(body.val[i][2])>>])
  ELSE IF isString(body) THEN encodeString(body)
  ELSE body

\* lib/utils.js validateAndSanitizeEmailData: status "ok" and the sanitized
\* email, or the kind of the error thrown
validateAndSanitizeEmailData(email) ==
  IF EmailFieldsError(email) # "ok"
  THEN [status |-> EmailFieldsError(email), email |-> email]
  ELSE IF \/ BadRecipient(email.to) \/ BadRecipient(email.cc)
          \/ BadRecipient(email.bcc) \/ BadRecipient(email.replyTo)
  THEN [status |-> "recipientType", email |-> email]
  ELSE [status |-> "ok",
        email  |-> [email EXCEPT !.body    = SanitizeBody(email.body),
                                 !.to      = CoerceRecipient(email.to),
                                 !.cc      = CoerceRecipient(email.cc),
                                 !.bcc     = CoerceRecipient(email.bcc),
                                 !.replyTo = CoerceRecipient(email.replyTo)]]

\* utils.js sanitizeEmailData, the validator the Notifier calls: the same
\* checks after a test that the email is present, and no escaping.
\* hasEmail is FALSE when the data has no email property.
sanitizeEmailData(hasEmail, email) ==
  IF ~hasEmail THEN [status |-> "emailRequired", email |-> email]
  ELSE IF EmailFieldsError(email) # "ok"
  THEN [status |-> EmailFieldsError(email), email |-> email]
  ELSE IF \/ BadRecipient(email.to) \/ BadRecipient(email.cc)
          \/ BadRecipient(email.bcc) \/ BadRecipient(email.replyTo)
  THEN [status |-> "recipientType", email |-> email]
  ELSE [status |-> "ok",
        email  |-> [email EXCEPT !.to      = CoerceRecipient(email.to),
                                 !.cc      = CoerceRecipient(email.cc),
                                 !.bcc     = CoerceRecipient(email.bcc),
                                 !.replyTo = CoerceRecipient(email.replyTo)]]

-----------------------------------------------------------------------------
(* Inputs of the email sanitizer *)

BodyChars == {"a", "&", "<"}

\* the character sequences of length 1..n over BodyChars
RECURSIVE CharSeqs(_)
CharSeqs(n) ==
  IF n = 0 THEN { << >> }
  ELSE LET shorter == CharSeqs(n - 1)
       IN  shorter \cup { Append(s, c) : s \in shorter, c \in BodyChars }

BodyStrings == { Str(s) : s \in CharSeqs(MaxBody) \ { << >> } }

\* the parameter maps of a template email: string and number values
BodyMaps ==
  { Obj(<< <<"name", v>> >>) : v \in BodyStrings \cup {Num(7)} }
    \cup { Obj(<< <<"name", Str(<<"&">>)>>, <<"n", Num(7)>> >>) }

Address1 == Str(<<"j", "@", "d">>)
Address2 == Str(<<"k", "@", "d">>)

Emails ==
  [to       : {Undef, Address1, Arr(<<Address1, Address2>>), Num(5), Arr(<<Num(5)>>)},
   cc       : {Undef, Address2},
   bcc      : {Undef},
   replyTo  : {Undef, Address1, Arr(<<Address1>>)},
   from     : {Undef, Address1, Num(5)},
   subject  : {Undef, Str(<<"H", "i">>)},
   body     : {Undef} \cup BodyStrings \cup BodyMaps,
   template : {Undef, Str(<<"T">>)}]

-----------------------------------------------------------------------------
(* SMS validation and sanitization *)

Whitespace == {" ", "\t", "\n"}

Digits == {"0", "1", "2", "3", "4", "5", "6", "7", "8", "9"}

RECURSIVE TrimStart(_)
TrimStart(s) ==
  IF s # << >> /\ Head(s) \in Whitespace THEN TrimStart(Tail(s)) ELSE s

RECURSIVE TrimEnd(_)
TrimEnd(s) ==
  IF s # << >> /\ s[Len(s)] \in Whitespace THEN TrimEnd(SubSeq(s, 1, Len(s) - 1)) ELSE s

\* String.prototype.trim
trim(s) == TrimEnd(TrimStart(s))

IsDigit(c) == c \in Digits

\* sanitizePhone(phone, param): every non-digit is removed, + is put in
\* front, and the result must match ^\+[1-9]\d{1,14}$
sanitizePhone(phone, param) ==
  LET phoneNumbers == SelectSeq(phone, IsDigit)
  IN  IF /\ Len(phoneNumbers) >= 2 /\ Len(phoneNumbers) <= 15
         /\ phoneNumbers[1] # "0"
      THEN [status |-> "ok", phone |-> <<"+">> \o phoneNumbers]
      ELSE [status |-> "phoneFormat", phone |-> <<"+">> \o phoneNumbers]

\* validateAndSanitizeSMSData: status "ok" and the sanitized sms, or the
\* kind of the error thrown
validateAndSanitizeSMSData(s) ==
  IF ~IsSet(s.message) THEN [status |-> "messageRequired", sms |-> s]
  ELSE IF ~isString(s.message) THEN [status |-> "messageType", sms |-> s]
  ELSE IF ~IsSet(s.phone) /\ ~IsSet(s.to) THEN [status |-> "recipient", sms |-> s]
  ELSE IF IsSet(s.to) /\ sanitizePhone(s.to.val, "to").status # "ok"
  THEN [status |-> "phoneFormat", sms |-> s]
  ELSE IF IsSet(s.phone) /\ sanitizePhone(s.phone.val, "phone").status # "ok"
  THEN [status |-> "phoneFormat", sms |-> s]
  ELSE [status |-> "ok",
        sms |-> [s EXCEPT !.message = Str(trim(s.message.val)),
                          !.phone = IF IsSet(s.phone)
                                    THEN Str(sanitizePhone(s.phone.val, "phone").phone)
                                    ELSE Str(sanitizePhone(s.to.val, "to").phone)]]

NoSms == [message |-> Undef, to |-> Undef, phone |-> Undef]

NoSmsResult == [status |-> "none", sms |-> NoSms]

(* Inputs of the SMS sanitizer *)

\* number of characters of the longest SMS message drawn
MaxMessage == 3

MessageChars == {" ", "a"}

\* the character sequences of length 0..n over MessageChars
RECURSIVE MessageSeqs(_)
MessageSeqs(n) ==
  IF n = 0 THEN { << >> }
  ELSE LET shorter == MessageSeqs(n - 1)
       IN  shorter \cup { Append(m, c) : m \in shorter, c \in MessageChars }

Messages == {Undef, Num(5)} \cup { Str(m) : m \in MessageSeqs(MaxMessage) }

Phones ==
  { Undef,
    Str(<<"+", "5", "5", " ", "(", "4", "8", ")", "9">>),
    Str(<<"0", "5", "5">>),
    Str(<<"n", "o">>) }

SmsArgsAlone == [message : Messages, to : Phones, phone : Phones]

-----------------------------------------------------------------------------
(* The Notifier *)

VARIABLES
  config,         \* this.config: api, app, templateBucket
  delay,          \* this.delay
  pc,             \* "idle", or "await" while _putNotification awaits buildTemplate
  call,           \* the create/update/remove call in progress or just finished
  lastConfigure,  \* the last configure call: its argument and the delay before it
  schedule,       \* schedule builder on its own: the schedule passed
  cronDelay,      \*   the delay passed
  cronNow,        \*   Date.now() at the call
  cronResult,     \*   what cronBuilder returned or threw
  input,          \* email sanitizer on its own: the email passed
  first,          \*   the result of sanitizing input
  second,         \*   the result of sanitizing first
  passes,         \*   number of sanitizer applications so far
  smsInput,       \* SMS sanitizer on its own: the sms passed
  smsResult       \*   what validateAndSanitizeSMSData returned or threw

vars == <<config, delay, pc, call, lastConfigure,
          schedule, cronDelay, cronNow, cronResult, input, first, second, passes,
          smsInput, smsResult>>

notifierVars == <<config, delay, pc, call, lastConfigure>>
cronVars     == <<schedule, cronDelay, cronNow, cronResult>>
emailVars    == <<input, first, second, passes>>
smsVars      == <<smsInput, smsResult>>

DefaultDelay == 120
MinDelay     == 120
SizeLimit    == 256000

\* validateConfig(config, ignore): "ok", or the first key that is not set and
\* not ignored, in the order of Object.keys(config)
validateConfig(cfg, ignore) ==
  CASE ~Truthy(cfg.api) /\ "api" \notin ignore                       -> "api"
    [] ~Truthy(cfg.app) /\ "app" \notin ignore                       -> "app"
    [] ~Truthy(cfg.templateBucket) /\ "templateBucket" \notin ignore -> "templateBucket"
    [] OTHER                                                         -> "ok"

\* ConfiguredDelay without the minimum
ConfiguredDelayNoMinimum(old, d) ==
  IF d = << >> \/ d = <<0>> THEN old ELSE d[1]

\* the delay after configure(c): c.delay is << >> when the property is absent
ConfiguredDelay(old, d) ==
  IF d = << >> \/ d = <<0>> THEN old
  ELSE IF d[1] > MinDelay THEN d[1] ELSE MinDelay

\* JSON.stringify(data).length: the number of UTF-16 code units.  A size is
\* [units, wide]: the code units of the serialized record and how many of
\* them are characters that take two bytes in UTF-8.
StringLength(size) == size.units

\* the size test of _send
TooBig(size) == StringLength(size) > SizeLimit

NoRecord ==
  [operation |-> undefined, id |-> undefined, email |-> << >>, sms |-> undefined,
   schedule |-> << >>, app |-> undefined, templateBucket |-> undefined]

NoCall ==
  [op |-> "none", byString |-> FALSE, id |-> undefined, email |-> << >>,
   sms |-> undefined, schedule |-> << >>, size |-> [units |-> 0, wide |-> 0],
   status |-> "none", sent |-> 0, rendered |-> "none", now |-> << >>,
   delayUsed |-> << >>, record |-> NoRecord]

NoConfigure == [called |-> FALSE, c |-> << >>, before |-> 0]

\* send that posts before it tests the size
sendBeforeSizeTest(c) ==
  IF TooBig(c.size)
  THEN [c EXCEPT !.status = "sizeLimit", !.sent = c.sent + 1]
  ELSE [c EXCEPT !.status = "sent", !.sent = c.sent + 1]

\* _send(data, config): the size test, then the transport (axios.post)
send(c) ==
  IF TooBig(c.size)
  THEN [c EXCEPT !.status = "sizeLimit"]
  ELSE [c EXCEPT !.status = "sent", !.sent = c.sent + 1]

\* _putNotification after the template was built (or was not needed):
\* inject app and templateBucket, build the schedule, send
putFinish(c, now) ==
  LET sch    == IF c.schedule = << >> THEN EmptySchedule ELSE c.schedule[1]
      built  == cronBuilder(sch, delay, now)
      withCf == [c EXCEPT !.record.app = config.app,
                          !.record.templateBucket = config.templateBucket,
                          !.now = <<now>>, !.delayUsed = <<delay>>]
  IN  IF built.status # "ok"
      THEN [withCf EXCEPT !.status = built.status]
      ELSE send([withCf EXCEPT !.record.schedule = <<built>>])

\* putStart without the id test of UPDATE
putStartNoIdTest(c) ==
  LET checked == sanitizeEmailData(c.email # << >>,
                                   IF c.email = << >> THEN << >> ELSE c.email[1])
  IN  IF validateConfig(config, {}) # "ok"
      THEN [c EXCEPT !.status = "config"]
      ELSE IF checked.status # "ok"
      THEN [c EXCEPT !.status = checked.status]
      ELSE LET validated ==
                 [c EXCEPT !.record = [NoRecord EXCEPT !.operation = c.op, !.id = c.id,
                                                       !.sms = c.sms,
                                                       !.email = <<checked.email>>,
                                                       !.schedule = c.schedule]]
           IN  IF IsSet(checked.email.template)
               THEN [validated EXCEPT !.status = "await"]
               ELSE [validated EXCEPT !.status = "go"]

\* _putNotification up to the await: configuration, email, id.
\* status "await" when buildTemplate has to be awaited, "go" when the call
\* goes on without it.
putStart(c) ==
  LET checked == sanitizeEmailData(c.email # << >>,
                                   IF c.email = << >> THEN << >> ELSE c.email[1])
  IN  IF validateConfig(config, {}) # "ok"
      THEN [c EXCEPT !.status = "config"]
      ELSE IF checked.status # "ok"
      THEN [c EXCEPT !.status = checked.status]
      ELSE LET validated ==
                 [c EXCEPT !.record = [NoRecord EXCEPT !.operation = c.op, !.id = c.id,
                                                       !.sms = c.sms,
                                                       !.email = <<checked.email>>,
                                                       !.schedule = c.schedule]]
           IN  IF c.op = "UPDATE" /\ ~Truthy(c.id)
               THEN [validated EXCEPT !.status = "idRequired"]
               ELSE IF IsSet(checked.email.template)
               THEN [validated EXCEPT !.status = "await"]
               ELSE [validated EXCEPT !.status = "go"]

\* removeCall that validates the whole configuration
removeCallFullConfig(c) ==
  LET newData == [c EXCEPT !.record = [NoRecord EXCEPT !.operation = "REMOVE",
                                                       !.id = c.id, !.sms = c.sms,
                                                       !.email = c.email,
                                                       !.schedule = c.schedule]]
  IN  IF validateConfig(config, {}) # "ok"
      THEN [c EXCEPT !.status = "config"]
      ELSE IF ~Truthy(newData.record.id)
      THEN [newData EXCEPT !.status = "idRequired"]
      ELSE send(newData)

\* remove(data), _removeNotification(newData)
removeCall(c) ==
  LET newData == [c EXCEPT !.record = [NoRecord EXCEPT !.operation = "REMOVE",
                                                       !.id = c.id, !.sms = c.sms,
                                                       !.email = c.email,
                                                       !.schedule = c.schedule]]
  IN  IF validateConfig(config, {"templateBucket", "app"}) # "ok"
      THEN [c EXCEPT !.status = "config"]
      ELSE IF ~Truthy(newData.record.id)
      THEN [newData EXCEPT !.status = "idRequired"]
      ELSE send(newData)

-----------------------------------------------------------------------------
(* Inputs of the Notifier *)

TextEmail ==
  [to |-> Address1, cc |-> Undef, bcc |-> Undef, replyTo |-> Undef,
   from |-> Address2, subject |-> Str(<<"H", "i">>), body |-> Str(<<"a", "&">>),
   template |-> Undef]

HtmlEmail ==
  [TextEmail EXCEPT !.body = Obj(<< <<"name", Str(<<"a">>)>> >>),
                    !.template = Str(<<"T">>)]

\* no to, cc or bcc
NoDestinationEmail == [TextEmail EXCEPT !.to = Undef]

\* template given with a string body
BadBodyEmail == [TextEmail EXCEPT !.template = Str(<<"T">>)]

\* data.email: << >> when the property is absent
EmailArgs == { << >>, <<TextEmail>>, <<HtmlEmail>>, <<NoDestinationEmail>>, <<BadBodyEmail>> }

SmsArgs == {undefined, "sms"}

IdArgs == {undefined, "abc"}

Day16Hour22 == [EmptySchedule EXCEPT !.day = "16", !.hour = "22"]

ConflictSchedule == [EmptySchedule EXCEPT !.day = "16", !.weekDay = "MON,THU"]

BadEndSchedule == [EmptySchedule EXCEPT !.end = "tomorrow"]

\* data.schedule: << >> when the property is absent
ScheduleArgs == { << >>, <<Day16Hour22>>, <<ConflictSchedule>>, <<BadEndSchedule>> }

\* serialized sizes around the limit, with and without two-byte characters
Sizes ==
  { [units |-> 120, wide |-> 0],
    [units |-> SizeLimit - 1, wide |-> 2],
    [units |-> SizeLimit, wide |-> 0],
    [units |-> SizeLimit, wide |-> 1],
    [units |-> SizeLimit + 1, wide |-> 0] }

CallInstants ==
  { [day |-> 18261, ms |-> 86310000],    \* 2019-12-31T23:58:30.000Z
    [day |-> 18062, ms |-> 37800000] }   \* 2019-06-15T10:30:00.000Z

ConfigArgs ==
  [api : {undefined, "https://host/path"}, app : {undefined, "app"},
   templateBucket : {undefined, "bucket"},
   delay : { << >>, <<0>>, <<60>>, <<121>>, <<MaxDelay>> }]

\* process.env may or may not supply each setting
EnvConfigs ==
  [api : {undefined, "https://env/path"}, app : {undefined, "envapp"},
   templateBucket : {undefined, "envbucket"}]

-----------------------------------------------------------------------------
(* Actions of the Notifier *)

Idle == pc = "idle" /\ call.op = "none" /\ ~lastConfigure.called

\* configure(c); it may also run while a call awaits its template
Configure ==
  /\ Idle \/ (pc = "await" /\ ~lastConfigure.called)
  /\ \E c \in ConfigArgs :
       /\ config' = [api            |-> OrElse(c.api, config.api),
                     app            |-> OrElse(c.app, config.app),
                     templateBucket |-> OrElse(c.templateBucket, config.templateBucket)]
       /\ delay' = ConfiguredDelay(delay, c.delay)
       /\ lastConfigure' = [called |-> TRUE, c |-> <<c>>, before |-> delay]
  /\ UNCHANGED <<pc, call, cronVars, emailVars, smsVars>>

\* create(data) or update(data), through _putNotification
Put(op) ==
  /\ Idle
  /\ \E id \in IdArgs, email \in EmailArgs, sms \in SmsArgs,
        sch \in ScheduleArgs, size \in Sizes, now \in CallInstants :
       LET arg     == [NoCall EXCEPT !.op = op, !.id = id, !.email = email, !.sms = sms,
                                     !.schedule = sch, !.size = size]
           started == putStart(arg)
       IN  IF started.status = "await"
           THEN /\ pc' = "await"
                /\ call' = started
           ELSE /\ pc' = "idle"
                /\ call' = IF started.status = "go" THEN putFinish(started, now)
                           ELSE started
  /\ UNCHANGED <<config, delay, lastConfigure, cronVars, emailVars, smsVars>>

Create == Put("CREATE")

Update == Put("UPDATE")

\* buildTemplate resolves: _putNotification goes on
TemplateBuilt ==
  /\ pc = "await"
  /\ \E now \in CallInstants :
       call' = putFinish([call EXCEPT !.rendered = "built"], now)
  /\ pc' = "idle"
  /\ UNCHANGED <<config, delay, lastConfigure, cronVars, emailVars, smsVars>>

\* buildTemplate rejects (no such template, or the template throws): the
\* rejection is the result of _putNotification
TemplateFailed ==
  /\ pc = "await"
  /\ call' = [call EXCEPT !.rendered = "failed", !.status = "template"]
  /\ pc' = "idle"
  /\ UNCHANGED <<config, delay, lastConfigure, cronVars, emailVars, smsVars>>

\* remove(data) with a string or with an object
Remove ==
  /\ Idle
  /\ \E byString \in BOOLEAN, id \in IdArgs \cup {""}, size \in Sizes,
        email \in { << >>, <<NoDestinationEmail>> },
        sch \in { << >>, <<ConflictSchedule>> } :
       /\ byString => (email = << >> /\ sch = << >> /\ id # undefined)
       /\ call' = removeCall([NoCall EXCEPT !.op = "REMOVE", !.byString = byString,
                                            !.id = id, !.email = email,
                                            !.schedule = sch, !.size = size])
  /\ UNCHANGED <<config, delay, pc, lastConfigure, cronVars, emailVars, smsVars>>

\* the caller has the result of the call (or configure has returned): the
\* record of it is dropped
Settle ==
  /\ pc = "idle"
  /\ call.op # "none" \/ lastConfigure.called
  /\ call' = NoCall
  /\ lastConfigure' = NoConfigure
  /\ UNCHANGED <<config, delay, pc, cronVars, emailVars, smsVars>>

NoCron0 == [status |-> "none", expression |-> undefined, once |-> undefined,
            end |-> << >>, cron |-> NoCron]

NoSanitized == [status |-> "none", email |-> << >>]

Init ==
  /\ config \in EnvConfigs
  /\ delay = DefaultDelay
  /\ pc = "idle"
  /\ call = NoCall
  /\ lastConfigure = NoConfigure
  /\ schedule = EmptySchedule /\ cronDelay = DefaultDelay
  /\ cronNow = [day |-> 0, ms |-> 0] /\ cronResult = NoCron0
  /\ input = << >> /\ first = NoSanitized /\ second = NoSanitized /\ passes = 0
  /\ smsInput = NoSms /\ smsResult = NoSmsResult

Next ==
  \/ Configure
  \/ Create
  \/ Update
  \/ TemplateBuilt
  \/ TemplateFailed
  \/ Remove
  \/ Settle

Spec == Init /\ [][Next]_vars

-----------------------------------------------------------------------------
(* The schedule builder on its own: cronBuilder applied to every schedule *)

FullConfig == [api |-> "https://env/path", app |-> "envapp", templateBucket |-> "envbucket"]

NotifierAtRest ==
  /\ config = FullConfig
  /\ delay = DefaultDelay
  /\ pc = "idle"
  /\ call = NoCall
  /\ lastConfigure = NoConfigure

InitCron ==
  /\ NotifierAtRest
  /\ schedule \in Schedules
  /\ cronDelay \in Delays
  /\ cronNow \in Instants
  /\ cronResult = NoCron0
  /\ input = << >> /\ first = NoSanitized /\ second = NoSanitized /\ passes = 0
  /\ smsInput = NoSms /\ smsResult = NoSmsResult

BuildSchedule ==
  /\ cronResult.status = "none"
  /\ cronResult' = cronBuilder(schedule, cronDelay, cronNow)
  /\ UNCHANGED <<notifierVars, schedule, cronDelay, cronNow, emailVars, smsVars>>

NextCron == BuildSchedule

SpecCron == InitCron /\ [][NextCron]_vars

-----------------------------------------------------------------------------
(* The email sanitizer on its own: applied once, then to its own result *)

InitSanitize ==
  /\ NotifierAtRest
  /\ schedule = EmptySchedule /\ cronDelay = DefaultDelay
  /\ cronNow = [day |-> 0, ms |-> 0] /\ cronResult = NoCron0
  /\ input \in Emails
  /\ first = NoSanitized /\ second = NoSanitized /\ passes = 0
  /\ smsInput = NoSms /\ smsResult = NoSmsResult

SanitizeFirst ==
  /\ passes = 0
  /\ first' = validateAndSanitizeEmailData(input)
  /\ passes' = 1
  /\ UNCHANGED <<notifierVars, cronVars, input, second, smsVars>>

SanitizeAgain ==
  /\ passes = 1
  /\ first.status = "ok"
  /\ second' = validateAndSanitizeEmailData(first.email)
  /\ passes' = 2
  /\ UNCHANGED <<notifierVars, cronVars, input, first, smsVars>>

NextSanitize ==
  \/ SanitizeFirst
  \/ SanitizeAgain

SpecSanitize == InitSanitize /\ [][NextSanitize]_vars

-----------------------------------------------------------------------------
(* The SMS sanitizer on its own *)

InitSms ==
  /\ NotifierAtRest
  /\ schedule = EmptySchedule /\ cronDelay = DefaultDelay
  /\ cronNow = [day |-> 0, ms |-> 0] /\ cronResult = NoCron0
  /\ input = << >> /\ first = NoSanitized /\ second = NoSanitized /\ passes = 0
  /\ smsInput \in SmsArgsAlone
  /\ smsResult = NoSmsResult

SanitizeSms ==
  /\ smsResult.status = "none"
  /\ smsResult' = validateAndSanitizeSMSData(smsInput)
  /\ UNCHANGED <<notifierVars, cronVars, emailVars, smsInput>>

NextSms == SanitizeSms

SpecSms == InitSms /\ [][NextSms]_vars

-----------------------------------------------------------------------------
(* Properties of the schedule builder (under SpecCron) *)

Built == cronResult.status # "none"

\* C1: a schedule with day set and weekDay or workingDays set makes
\* cronBuilder fail with the day/weekDay conflict error and produce no
\* expression, whatever the other fields (an unparseable end included) and
\* whatever the delay.
ConflictAlwaysFails ==
  (/\ Built
   /\ schedule.day # undefined
   /\ (schedule.weekDay # undefined \/ schedule.workingDays))
  => (cronResult.status = "conflict" /\ cronResult.expression = undefined)

\* the conflict error was raised for a schedule with day, workingDays, other
\* fields and an unparseable end
ConflictWitness ==
  /\ cronResult.status = "conflict"
  /\ schedule.day = "16" /\ schedule.workingDays /\ schedule.weekDay = undefined
  /\ schedule.hour = "22" /\ schedule.end = "tomorrow"
  /\ cronDelay = MaxDelay

\* the numbers of S that print as s
Denoted(s, S) == { n \in S : ToString(n) = s }

IsLeap(y) == (y % 4 = 0 /\ y % 100 # 0) \/ y % 400 = 0

DaysInMonth(y, m) ==
  IF m = 2 THEN (IF IsLeap(y) THEN 29 ELSE 28)
  ELSE IF m \in {4, 6, 9, 11} THEN 30 ELSE 31

\* the epoch day of a calendar date (month 1..12)
DaysFromCivil(y, m, d) ==
  LET yy  == IF m <= 2 THEN y - 1 ELSE y
      era == yy \div 400
      yoe == yy - era * 400
      mp  == IF m > 2 THEN m - 3 ELSE m + 9
      doy == ((153 * mp + 2) \div 5) + d - 1
      doe == yoe * 365 + (yoe \div 4) - (yoe \div 100) + doy
  IN  era * 146097 + doe - 719468

\* the six fields are numbers of a calendar minute, and some instant of that
\* minute lies in [from, to]
FieldsDenoteMinuteWithin(c, from, to) ==
  LET ys == Denoted(c.year, 2019..2022)
      ms == Denoted(c.month, 1..12)
      ds == Denoted(c.dayOfMonth, 1..31)
      hs == Denoted(c.hour, 0..23)
      ns == Denoted(c.minute, 0..59)
  IN  /\ ys # {} /\ ms # {} /\ ds # {} /\ hs # {} /\ ns # {}
      /\ LET y == CHOOSE n \in ys : TRUE
             m == CHOOSE n \in ms : TRUE
             d == CHOOSE n \in ds : TRUE
             h == CHOOSE n \in hs : TRUE
             n == CHOOSE k \in ns : TRUE
             start == [day |-> DaysFromCivil(y, m, d), ms |-> h * 3600000 + n * 60000]
         IN  /\ d <= DaysInMonth(y, m)
             /\ InstantLeq(start, to)
             /\ InstantLeq(from, [start EXCEPT !.ms = start.ms + 59999])

\* C2: for a schedule with none of minute, hour, day, month, weekDay, year
\* (workingDays and a valid end may be set) and every delay, cronBuilder
\* returns once = true, the dayOfWeek field is ?, and the other five fields
\* of the expression are the UTC calendar fields of an instant within
\* [now, now + delay seconds].
OnceScheduleWithinDelay ==
  (/\ Built
   /\ schedule.minute = undefined /\ schedule.hour = undefined
   /\ schedule.day = undefined /\ schedule.month = undefined
   /\ schedule.weekDay = undefined /\ schedule.year = undefined
   /\ schedule.end \in {undefined, "2030-01-01"})
  => LET c == cronResult.cron
     IN  /\ cronResult.status = "ok"
         /\ cronResult.once = "true"
         /\ c.dayOfWeek = "?"
         /\ cronResult.expression =
              "cron(" \o c.minute \o " " \o c.hour \o " " \o c.dayOfMonth \o " "
                      \o c.month \o " ? " \o c.year \o ")"
         /\ FieldsDenoteMinuteWithin(c, cronNow, AddMs(cronNow, cronDelay * 1000))

\* a one-shot schedule built 90 seconds before the end of 2019 with only
\* workingDays and a valid end set: it fires in the first minute of 2020
OnceScheduleWitness ==
  /\ cronResult.status = "ok" /\ cronResult.once = "true"
  /\ schedule.workingDays /\ schedule.end = "2030-01-01"
  /\ schedule.once = undefined
  /\ cronNow = [day |-> 18261, ms |-> 86310000] /\ cronDelay = 120
  /\ cronResult.expression = "cron(0 0 1 1 ? 2020)"

\* s if the property was given, else the default
Given(s, default) == IF s # undefined THEN s ELSE default

-----------------------------------------------------------------------------
(* Properties of the Notifier (under Spec) *)

\* C4 as stated: after every configure(c), whatever calls came before, the
\* delay is 120 when c has no delay or a delay below 120, and c.delay when
\* c.delay is above 120.
DelayIsDefaultWithoutDelay ==
  lastConfigure.called
  => LET d == lastConfigure.c[1].delay
     IN  /\ (d = << >> \/ (d # << >> /\ d[1] < 120)) => delay = 120
         /\ (d # << >> /\ d[1] > 120) => delay = d[1]

\* C4: after configure(c) the delay is c.delay when c.delay is above 120, is
\* 120 when c.delay is given, not zero and not above 120, and is what it was
\* before the call when c has no delay (or a delay of 0); it is 120 after
\* construction and never below 120.
DelayAfterConfigure ==
  /\ delay >= 120
  /\ lastConfigure.called
     => LET d == lastConfigure.c[1].delay
        IN  /\ (d # << >> /\ d[1] > 120) => delay = d[1]
            /\ (d # << >> /\ d[1] # 0 /\ d[1] <= 120) => delay = 120
            /\ (d = << >> \/ d = <<0>>) => delay = lastConfigure.before

\* configure without a delay, after an earlier configure raised the delay
DelayKeptWitness ==
  /\ lastConfigure.called
  /\ lastConfigure.c[1].delay = << >>
  /\ lastConfigure.before = MaxDelay
  /\ delay = MaxDelay

\* a create, update or remove call has finished
Finished == pc = "idle" /\ call.op # "none"

IsPut == call.op \in {"CREATE", "UPDATE"}

ConfigComplete ==
  config.api # undefined /\ config.app # undefined /\ config.templateBucket # undefined

\* the call passes every check made on it: configuration, payload, id,
\* template, schedule, size
PassesEveryCheck ==
  IF IsPut
  THEN /\ ConfigComplete
       /\ call.email \in { <<TextEmail>>, <<HtmlEmail>> }
       /\ call.op = "UPDATE" => call.id \notin {undefined, ""}
       /\ call.rendered # "failed"
       /\ call.schedule \in { << >>, <<Day16Hour22>> }
       /\ call.size.units <= 256000
  ELSE /\ config.api # undefined
       /\ call.id \notin {undefined, ""}
       /\ call.size.units <= 256000

\* C5: for every create, update or remove call the transport is invoked
\* exactly once when the call passes every check and never when a check
\* fails (missing configuration, invalid payload, template failure, schedule
\* conflict or bad end, oversize record); a failed template render is the
\* result of the call and nothing is dispatched.
DispatchOnceAfterEveryCheck ==
  /\ call.sent \in {0, 1}
  /\ pc = "await" => call.sent = 0
  /\ Finished =>
       /\ PassesEveryCheck => (call.sent = 1 /\ call.status = "sent")
       /\ ~PassesEveryCheck => (call.sent = 0 /\ call.status # "sent")
       /\ call.rendered = "failed" => (call.status = "template" /\ call.sent = 0)

\* an update with a template was dispatched after its template was built,
\* with the application and bucket injected
DispatchWitness ==
  /\ Finished /\ call.op = "UPDATE" /\ call.email = <<HtmlEmail>>
  /\ call.rendered = "built" /\ call.sent = 1 /\ call.status = "sent"
  /\ call.record.app = config.app
  /\ call.record.schedule # << >> /\ call.record.schedule[1].once = "true"

\* C6 as stated: a create or update with a valid sms and no email passes
\* validation and reaches dispatch (everything else being in order), and a
\* request with neither option is rejected.
SmsOnlyIsAccepted ==
  (Finished /\ IsPut /\ call.email = << >>)
  => /\ (/\ call.sms = "sms"
         /\ ConfigComplete
         /\ call.op = "UPDATE" => call.id # undefined
         /\ call.schedule \in { << >>, <<Day16Hour22>> }
         /\ call.size.units <= 256000)
        => (call.status = "sent" /\ call.sent = 1)
     /\ call.sms = undefined => call.sent = 0

EmailErrors ==
  {"emailRequired", "destination", "from", "subject", "body", "bodyType",
   "stringType", "recipientType"}

NoId == call.id \in {undefined, ""}

\* C7 as stated: every update without id and every remove without id fails
\* with the id-required error and dispatches nothing.
NoIdMeansIdRequiredError ==
  (Finished /\ call.op \in {"UPDATE", "REMOVE"} /\ NoId)
  => (call.status = "idRequired" /\ call.sent = 0)

\* C7: an update without id fails and dispatches nothing, with the
\* id-required error when the configuration is complete and the email is
\* valid, else with the configuration or email error, which are tested
\* first; a remove without id fails and dispatches nothing, with the
\* id-required error when api is configured, else with the configuration
\* error; remove(s) with a string s sends the record {id: s, operation:
\* 'REMOVE'} and passes the id test when s is not empty.
NoIdFailsBeforeDispatch ==
  /\ (Finished /\ call.op = "UPDATE" /\ NoId)
     => /\ call.sent = 0
        /\ call.status \in {"config", "idRequired"} \cup EmailErrors
        /\ (ConfigComplete /\ call.email \in { <<TextEmail>>, <<HtmlEmail>> })
           <=> call.status = "idRequired"
  /\ (Finished /\ call.op = "REMOVE" /\ NoId)
     => /\ call.sent = 0
        /\ call.status = (IF config.api # undefined THEN "idRequired" ELSE "config")
  /\ (Finished /\ call.op = "REMOVE" /\ call.byString /\ config.api # undefined)
     => /\ call.record = [NoRecord EXCEPT !.id = call.id, !.operation = "REMOVE"]
        /\ call.id # "" <=> call.status # "idRequired"

\* an update without id, with everything else in order, got the id-required
\* error
IdRequiredWitness ==
  /\ Finished /\ call.op = "UPDATE" /\ call.id = undefined
  /\ call.email = <<HtmlEmail>> /\ ConfigComplete
  /\ call.status = "idRequired" /\ call.sent = 0

\* C8 as stated: the send step fails with the size-limit error if and only
\* if the serialized record is larger than 256,000 bytes.
SizeLimitIsInBytes ==
  (Finished /\ call.status \in {"sent", "sizeLimit"})
  => (call.status = "sizeLimit" <=> call.size.units + call.size.wide > 256000)

\* C9 as stated: a remove passes the configuration check whenever
\* templateBucket and app are set and fails it when one of them is missing.
RemoveNeedsBucketAndApp ==
  (Finished /\ call.op = "REMOVE")
  => (call.status # "config"
      <=> (config.templateBucket # undefined /\ config.app # undefined))

\* C9: a remove requires only api to be configured (templateBucket and app
\* are the ignored keys): it fails with the configuration error exactly when
\* api is missing, and it runs no payload validation, sanitization or
\* schedule building: an invalid email or a conflicting schedule in the
\* record is sent as it is.
RemoveNeedsOnlyApi ==
  (Finished /\ call.op = "REMOVE")
  => /\ call.status = "config" <=> config.api = undefined
     /\ call.status \in {"config", "idRequired", "sizeLimit", "sent"}
     /\ call.status \in {"sizeLimit", "sent"}
        => (call.record.email = call.email /\ call.record.schedule = call.schedule)

\* a remove was dispatched with neither app nor templateBucket configured,
\* carrying an invalid email and a conflicting schedule
RemoveWitness ==
  /\ Finished /\ call.op = "REMOVE" /\ call.status = "sent" /\ call.sent = 1
  /\ config.app = undefined /\ config.templateBucket = undefined
  /\ call.record.email = <<NoDestinationEmail>>
  /\ call.record.schedule = <<ConflictSchedule>>

-----------------------------------------------------------------------------
(* Properties of the email sanitizer (under SpecSanitize) *)

SpecialChars == {"&", "<", ">", "\"", "'"}

HasSpecial(v) == v.type = "string" /\ \E i \in 1..Len(v.val) : v.val[i] \in SpecialChars

\* a string of the body (the string body, or a string value of a map body)
\* contains a character that the escaping rewrites
BodyHasSpecial(body) ==
  IF body.type = "object"
  THEN \E i \in 1..Len(body.val) : HasSpecial(body.val[i][2])
  ELSE HasSpecial(body)

\* C10 as stated: sanitize(sanitize(e)) equals sanitize(e) for every valid
\* email payload e.
SanitizeIsIdempotent ==
  passes = 2 => (second.status = "ok" /\ second.email = first.email)

\* C10: for every valid email payload e, sanitize(sanitize(e)) succeeds and
\* agrees with sanitize(e) on every field but body (recipients stay arrays);
\* it equals sanitize(e) exactly when no string of the body contains one of
\* & < > " ', which are escaped again (& becomes &amp; and then &amp;amp;).
SanitizeIsIdempotentButEscaping ==
  passes = 2
  => /\ second.status = "ok"
     /\ [second.email EXCEPT !.body = Undef] = [first.email EXCEPT !.body = Undef]
     /\ second.email = first.email <=> ~BodyHasSpecial(input.body)
     /\ \A f \in {"to", "cc", "bcc", "replyTo"} :
          first.email[f].type \in {"undefined", "array"}

\* a text email with a plain body and a string recipient was sanitized twice
SanitizeWitness ==
  /\ passes = 2
  /\ input.to = Address1 /\ input.replyTo = Address1
  /\ input.body = Str(<<"a", "a">>)
  /\ first.email.to = Arr(<<Address1>>)
  /\ second.email = first.email

-----------------------------------------------------------------------------
(* Properties of the SMS sanitizer (under SpecSms) *)

\* the string has a character that is not whitespace
NonBlank(v) == v.type = "string" /\ \E i \in 1..Len(v.val) : v.val[i] \notin {" ", "\t", "\n"}

\* C11: every SMS payload that validation and sanitization return has a
\* message that is non-empty after trimming; an input whose message is empty
\* or only whitespace is rejected, not returned.
SmsMessageNonEmpty ==
  /\ smsResult.status = "ok" => NonBlank(smsResult.sms.message)
  /\ (smsResult.status # "none" /\ ~NonBlank(smsInput.message)) => smsResult.status # "ok"

-----------------------------------------------------------------------------
(* Day fields of the expression (under SpecCron) *)

\* C12: in every expression cronBuilder produces, one-shot or explicit, for
\* any tokens given as day or weekDay (* and ? included), exactly one of the
\* dayOfMonth and dayOfWeek fields is ?: never both ?, never both *, never
\* both concrete.
ExactlyOneDayFieldIsQuestionMark ==
  cronResult.status = "ok"
  => LET dom == cronResult.cron.dayOfMonth
         dow == cronResult.cron.dayOfWeek
     IN  /\ (dom = "?" /\ dow # "?") \/ (dom # "?" /\ dow = "?")
         /\ cronResult.expression =
              "cron(" \o cronResult.cron.minute \o " " \o cronResult.cron.hour \o " "
                      \o dom \o " " \o cronResult.cron.month \o " " \o dow \o " "
                      \o cronResult.cron.year \o ")"

\* cronBuilder returned in the explicit case
ExplicitBuilt ==
  /\ cronResult.status = "ok"
  /\ \/ schedule.minute # undefined \/ schedule.hour # undefined
     \/ schedule.day # undefined \/ schedule.month # undefined
     \/ schedule.weekDay # undefined \/ schedule.year # undefined

\* C13 as stated: in the explicit case dayOfWeek is weekDay if given, else
\* MON-FRI if workingDays, else ? if dayOfMonth was resolved from day, else *
\* (so a schedule with only hour has dayOfWeek *).
DayOfWeekStarWithoutDay ==
  ExplicitBuilt
  => cronResult.cron.dayOfWeek =
       (IF schedule.weekDay # undefined THEN schedule.weekDay
        ELSE IF schedule.workingDays THEN "MON-FRI"
        ELSE IF schedule.day # undefined THEN "?"
        ELSE "*")

\* C13: in the explicit case dayOfWeek is weekDay if given, else MON-FRI if
\* workingDays, else * if day is the token ?, else ?: also when day is not
\* given and dayOfMonth fell back to *, so a schedule with only hour has
\* dayOfMonth * and dayOfWeek ?.
DayOfWeekQuestionMarkUnlessDayIs ==
  ExplicitBuilt
  => /\ cronResult.cron.dayOfWeek =
          (IF schedule.weekDay # undefined THEN schedule.weekDay
           ELSE IF schedule.workingDays THEN "MON-FRI"
           ELSE IF schedule.day = "?" THEN "*"
           ELSE "?")
     /\ (/\ schedule.hour = "22" /\ schedule.minute = undefined
         /\ schedule.day = undefined /\ schedule.month = undefined
         /\ schedule.weekDay = undefined /\ schedule.year = undefined
         /\ ~schedule.workingDays)
        => cronResult.expression = "cron(0 22 * * ? *)"

\* a schedule with only hour was built
OnlyHourWitness ==
  /\ cronResult.status = "ok"
  /\ schedule = [EmptySchedule EXCEPT !.hour = "22"]
  /\ cronResult.cron.dayOfMonth = "*" /\ cronResult.cron.dayOfWeek = "?"

\* none of minute, hour, day, month, weekDay, year was supplied
NoneSupplied ==
  /\ schedule.minute = undefined /\ schedule.hour = undefined
  /\ schedule.day = undefined /\ schedule.month = undefined
  /\ schedule.weekDay = undefined /\ schedule.year = undefined

\* C14 as stated: the once field of the returned schedule is true if and
\* only if none of minute, hour, day, month, weekDay, year was supplied,
\* whatever once value the caller passed in.
OnceIffNoneSupplied ==
  cronResult.status = "ok" => (cronResult.once = "true" <=> NoneSupplied)

\* C14: the once field of the returned schedule is true when none of the six
\* fields was supplied, and is otherwise the once value the caller passed
\* in, unchanged: true if and only if none of the six fields was supplied
\* or the caller passed once: true.
OnceIsSetOrKept ==
  cronResult.status = "ok"
  => /\ NoneSupplied => cronResult.once = "true"
     /\ ~NoneSupplied => cronResult.once = schedule.once
     /\ cronResult.once = "true" <=> (NoneSupplied \/ schedule.once = "true")

\* the schedule {hour, day, month, once: true} was built and is still once
OnceKeptWitness ==
  /\ cronResult.status = "ok"
  /\ schedule.hour = "22" /\ schedule.day = "16" /\ schedule.month = "DEC"
  /\ schedule.once = "true"
  /\ cronResult.once = "true"
  /\ cronResult.expression = "cron(0 22 16 DEC ? *)"

====
